---- MODULE Spec2Model ----
(***************************************************************************)
(* Model of Lab_3_IR_Spectra/IR_Analysis.ipynb: the code cells of the      *)
(* notebook executed top to bottom in one Python kernel.                   *)
(*                                                                         *)
(* State: the kernel namespace (which names are bound, and the values of   *)
(* the names the analysis computes with), the text printed so far, the     *)
(* exception raised by the cell executed last, and the position of the     *)
(* execution.  A statement that reads an unbound name raises NameError,    *)
(* which ends its cell; the statements before it keep their effect.        *)
(*                                                                         *)
(* Units.  Bond lengths of r_array are integers in tenths of an Angstrom.  *)
(* Separations in atomic units are integers in units of                    *)
(* 1/(1000*(GridPoints-1)) bohr, so that every point of the linspace grid  *)
(* is an exact integer.  Energies are integers.                            *)
(***************************************************************************)
EXTENDS Integers, Sequences, FiniteSets, TLC

\* ------------------------------------------------------------------ bounds
MaxRows == 2
MaxCenter == 3
MaxForce == 1

\* ------------------------------------------------------- program constants
GridPoints == 200
AuPerAngstromMilli == 189
GridStartTenths == 5
GridStopTenths == 23
HydrogenMass == 1836
FluorineMass == 34883
TwoPiMilli == 6283

\* ----------------------------------------------------------------- helpers
Abs(x) ==
  IF x < 0 THEN -x ELSE x

Max(x, y) ==
  IF x < y THEN y ELSE x

Range(s) ==
  {s[k] : k \in 1..Len(s)}

\* list.append(x)
ListAppendMut(list, x) ==
  <<x>> \o list

ListAppend(list, x) ==
  Append(list, x)

IsPrefix(s, t) ==
  /\ Len(s) <= Len(t)
  /\ \A k \in 1..Len(s) : s[k] = t[k]

StrictlyIncreasing(s) ==
  \A k \in 1..(Len(s) - 1) : s[k] < s[k + 1]

\* the literal list of line 91, in tenths of an Angstrom
RArrayLiteral ==
  <<5, 6, 7, 8, 9, 10, 11, 12, 13, 14, 15, 16, 17, 18, 19, 20, 21, 22, 23>>

\* "~1.89 * bond length in Angstroms is the bond length in atomic units"
ToAtomicUnits(rTenths) ==
  rTenths * AuPerAngstromMilli * (GridPoints - 1)

\* np.linspace(start, stop, num): num points, start + k*(stop-start)/(num-1),
\* the last one being stop.  start and stop are given in 1/1000 bohr.
LinSpaceMut(startMilli, stopMilli, num) ==
  [k \in 1..num |-> startMilli * (num - 1) + k * (stopMilli - startMilli)]

LinSpace(startMilli, stopMilli, num) ==
  [k \in 1..num |-> startMilli * (num - 1) + (k - 1) * (stopMilli - startMilli)]

\* r_fine = np.linspace(0.5*1.89, 2.3*1.89, 200)
FineGrid ==
  LinSpace(GridStartTenths * AuPerAngstromMilli,
           GridStopTenths * AuPerAngstromMilli, GridPoints)

\* the index of the minimum of a[lo..hi]: the minimum of the left half,
\* replaced by that of the right half only when strictly smaller, so that
\* among equal minima the lowest index is kept
RECURSIVE ArgMinLast(_, _, _)
ArgMinLast(a, lo, hi) ==
  IF lo = hi THEN lo
  ELSE LET mid == (lo + hi) \div 2
           l == ArgMinLast(a, lo, mid)
           r == ArgMinLast(a, mid + 1, hi)
       IN  IF a[r] <= a[l] THEN r ELSE l

RECURSIVE ArgMinIn(_, _, _)
ArgMinIn(a, lo, hi) ==
  IF lo = hi THEN lo
  ELSE LET mid == (lo + hi) \div 2
           l == ArgMinIn(a, lo, mid)
           r == ArgMinIn(a, mid + 1, hi)
       IN  IF a[r] < a[l] THEN r ELSE l

\* np.argmin(a): 0-based index of the first minimum of a non-empty array
ArgMinMut(a) ==
  ArgMinLast(a, 1, Len(a)) - 1

ArgMin(a) ==
  ArgMinIn(a, 1, Len(a)) - 1

\* str(r) of a float with one decimal, as a sequence of characters
DigitChars ==
  <<"0", "1", "2", "3", "4", "5", "6", "7", "8", "9">>

StrMut(rTenths) ==
  <<DigitChars[(rTenths \div 10) + 1], ".", "0">>

Str(rTenths) ==
  <<DigitChars[(rTenths \div 10) + 1], ".", DigitChars[(rTenths % 10) + 1]>>

\* mol_tmpl, the z-matrix template, as a sequence of tokens
mol_tmpl ==
  <<"H", "NL", "F", " ", "1", " ", "**R**">>

\* template.replace("**R**", text)
RECURSIVE Replace(_, _)
Replace(tmpl, text) ==
  IF tmpl = <<>> THEN <<>>
  ELSE (IF Head(tmpl) = "**R**" THEN text ELSE <<Head(tmpl)>>)
       \o Replace(Tail(tmpl), text)

DigitValue(c) ==
  (CHOOSE d \in 1..10 : DigitChars[d] = c) - 1

\* psi4.geometry: the molecule built from a z-matrix string; its bond length
\* is the number written after "F 1 "
BondLength(zmat) ==
  DigitValue(zmat[Len(zmat) - 2]) * 10 + DigitValue(zmat[Len(zmat)])

\* reduced mass of HF, mu = mH*mF/(mH+mF), in tenths of an atomic unit
ReducedMassTenthsMut(h, f) ==
  ((10 * h * f) \div h) + 10 * f

ReducedMassTenths(h, f) ==
  (10 * h * f) \div (h + f)

\* ------------------------------------------------------------------- state
VARIABLES
  pc, runAll, err, bound, stdout,
  csv, ir_spectrum, wn, ab, rangeIt,
  pes, r_array, molecules, RHF_E_array, geomIt, energyIt,
  E_spline, r_array_au, r_fine, E_fine, Req_idx, Req,
  mH, mF, mu, Force_Constant, nu, E_vib_au

vars ==
  <<pc, runAll, err, bound, stdout,
    csv, ir_spectrum, wn, ab, rangeIt,
    pes, r_array, molecules, RHF_E_array, geomIt, energyIt,
    E_spline, r_array_au, r_fine, E_fine, Req_idx, Req,
    mH, mF, mu, Force_Constant, nu, E_vib_au>>

\* the variables grouped by the cell that assigns them
spectrumVars ==
  <<ir_spectrum, wn, ab, rangeIt>>

pesVars ==
  <<r_array, molecules, RHF_E_array, geomIt, energyIt>>

fineVars ==
  <<r_fine, E_fine>>

reqVars ==
  <<Req_idx, Req, mH, mF>>

envVars ==
  <<runAll, csv, pes>>

\* names the notebook reads but that no cell of the notebook assigns
givenVars ==
  <<E_spline, r_array_au, mu, Force_Constant, nu>>

\* ------------------------------------------------------------ input spaces
\* rows of spectra.CSV: (wavenumber, absorbance)
RowValues ==
  {<<1, 0>>, <<2, 1>>}

Tables ==
  UNION {[1..n -> RowValues] : n \in 0..MaxRows}

\* psi4.energy is a black box: an energy for every bond length, here a well
\* centred at one of a few bond lengths (tenths of an Angstrom)
WellCenters ==
  {9, 10, 13}

SurfaceEnergy(rTenths) ==
  (rTenths - pes) * (rTenths - pes) - 100

\* psi4.energy("SCF/cc-pVDZ", molecule=mol)
Psi4Energy(zmat) ==
  SurfaceEnergy(BondLength(zmat))

\* names the student is asked to create; no cell of the notebook binds them
StudentNames ==
  {"E_spline", "r_array_au", "E_array", "Force_fine", "mu",
   "Force_Constant", "nu", "Harm_Pot", "omega"}

\* the callable E_spline: a well with centre c (in half grid steps from the
\* first grid point), a flat bottom of half-width w and slope s, and a second
\* equal well p half grid steps to the right of the first when p > 0
HalfStep ==
  ((GridStopTenths - GridStartTenths) * AuPerAngstromMilli) \div 2

Interpolants ==
  [c : (0..MaxCenter) \cup {-1, 2 * GridPoints}, w : {0, 2 * HalfStep},
   s : {1}, p : {0}]
    \cup [c : 0..MaxCenter, w : {0}, s : {1}, p : {20}]
    \cup {[c |-> 0, w |-> 0, s |-> 0, p |-> 0]}

DefaultInterpolant ==
  [c |-> 0, w |-> 0, s |-> 0, p |-> 0]

Min(x, y) ==
  IF y < x THEN y ELSE x

\* E_spline(x) for one separation x
Eval(sp, x) ==
  LET d1 == Abs(x - (FineGrid[1] + sp.c * HalfStep))
      d2 == Abs(x - (FineGrid[1] + (sp.c + sp.p) * HalfStep))
  IN  sp.s * Max(0, Min(d1, d2) - sp.w)

\* E_spline(r_fine): elementwise evaluation on an array
EvalArray(sp, xs) ==
  [k \in 1..Len(xs) |-> Eval(sp, xs[k])]

\* sample separations (1/1000 bohr) a fit could be given
SampleRs ==
  {<<945, 1134, 1323>>, <<945, 1134, 1323, 1512>>,
   <<945, 1134, 1134, 1323>>, <<945, 1323, 1134, 1512>>}

\* --------------------------------------------------------------- exceptions
NoError ==
  [type |-> "none", name |-> ""]

NameError(n) ==
  [type |-> "NameError", name |-> n]

\* the first name of reads (in evaluation order) that is not bound in b
RECURSIVE FirstUnbound(_, _)
FirstUnbound(reads, b) ==
  IF reads = <<>> THEN ""
  ELSE IF Head(reads) \notin b THEN Head(reads)
  ELSE FirstUnbound(Tail(reads), b)

\* the exception of a statement list that reads `reads` in namespace b
ErrorOf(reads, b) ==
  IF FirstUnbound(reads, b) = "" THEN NoError
  ELSE NameError(FirstUnbound(reads, b))

\* --------------------------------------------------------------- the cells
CellOrder ==
  <<"imports", "spectrum", "import_psi4", "pes", "plot_pes", "fit", "fine",
    "force", "req", "extract", "harm", "plot_harm", "water", "water_print",
    "omega", "done">>

CellIndex(c) ==
  CHOOSE k \in 1..Len(CellOrder) : CellOrder[k] = c

\* the cell executed after cell c ended with exception e: Run All stops at the
\* first exception, cell-by-cell execution goes on with the next cell
After(c, e) ==
  IF e.type # "none" /\ runAll THEN "done"
  ELSE CellOrder[CellIndex(c) + 1]

\* one line written by print(...)
OutLine(label, value) ==
  [label |-> label, value |-> value]

\* ------------------------------------------------------------------- Init
\* a fresh kernel: nothing is bound
Init ==
  /\ pc = "imports"
  /\ runAll \in BOOLEAN
  /\ err = NoError
  /\ bound = {}
  /\ stdout = <<>>
  /\ csv \in Tables
  /\ ir_spectrum = <<>> /\ wn = <<>> /\ ab = <<>> /\ rangeIt = 0
  /\ pes \in WellCenters
  /\ r_array = <<>> /\ molecules = <<>> /\ RHF_E_array = <<>>
  /\ geomIt = 0 /\ energyIt = 0
  /\ E_spline = DefaultInterpolant /\ r_array_au = <<>>
  /\ r_fine = <<>> /\ E_fine = <<>> /\ Req_idx = 0 /\ Req = 0
  /\ mH = 0 /\ mF = 0 /\ mu = 0 /\ Force_Constant = 0 /\ nu = 0
  /\ E_vib_au = 0

\* cell 22-25: the imports
Imports ==
  /\ pc = "imports"
  /\ bound' = bound \cup {"np", "plt", "InterpolatedUnivariateSpline", "pd"}
  /\ err' = NoError
  /\ pc' = After("imports", NoError)
  /\ UNCHANGED <<stdout, spectrumVars, pesVars, fineVars, reqVars, envVars,
                 givenVars, E_vib_au>>

\* cell 51-55: read the table, create the two empty lists, create the range
SpectrumBegin ==
  /\ pc = "spectrum"
  /\ ir_spectrum' = csv
  /\ wn' = <<>>
  /\ ab' = <<>>
  /\ rangeIt' = 0
  /\ bound' = bound \cup {"ir_spectrum", "wn", "ab"}
  /\ err' = NoError
  /\ pc' = "spectrum_loop"
  /\ UNCHANGED <<stdout, pesVars, fineVars, reqVars, envVars, givenVars,
                 E_vib_au>>

\* for i in range(0, len(ir_spectrum)): is there a next i
SpectrumLoopCondMut ==
  rangeIt + 1 < Len(ir_spectrum)

SpectrumLoopCond ==
  rangeIt < Len(ir_spectrum)

\* lines 57-58: one iteration of the row loop
SpectrumIter ==
  /\ pc = "spectrum_loop"
  /\ SpectrumLoopCond
  /\ wn' = ListAppend(wn, ir_spectrum[rangeIt + 1][1])
  /\ ab' = ListAppend(ab, ir_spectrum[rangeIt + 1][2])
  /\ rangeIt' = rangeIt + 1
  /\ bound' = bound \cup {"i"}
  /\ UNCHANGED <<pc, err, stdout, ir_spectrum, pesVars, fineVars, reqVars,
                 envVars, givenVars, E_vib_au>>

\* line 60: the loop is exhausted, plt.plot(wn, ab)
SpectrumEnd ==
  /\ pc = "spectrum_loop"
  /\ ~SpectrumLoopCond
  /\ err' = ErrorOf(<<"plt", "wn", "ab">>, bound)
  /\ pc' = After("spectrum", err')
  /\ UNCHANGED <<bound, stdout, spectrumVars, pesVars, fineVars, reqVars,
                 envVars, givenVars, E_vib_au>>

\* cell 82: import psi4
ImportPsi4 ==
  /\ pc = "import_psi4"
  /\ bound' = bound \cup {"psi4"}
  /\ err' = NoError
  /\ pc' = After("import_psi4", NoError)
  /\ UNCHANGED <<stdout, spectrumVars, pesVars, fineVars, reqVars, envVars,
                 givenVars, E_vib_au>>

\* lines 91-99: the bond lengths, the template, the two empty lists
PesBegin ==
  /\ pc = "pes"
  /\ r_array' = RArrayLiteral
  /\ molecules' = <<>>
  /\ RHF_E_array' = <<>>
  /\ geomIt' = 0
  /\ energyIt' = 0
  /\ bound' = bound \cup {"r_array", "mol_tmpl", "molecules", "RHF_E_array"}
  /\ err' = NoError
  /\ pc' = "pes_geom"
  /\ UNCHANGED <<stdout, spectrumVars, fineVars, reqVars, envVars, givenVars,
                 E_vib_au>>

\* for r in r_array: the list iterator has a next element
GeomLoopCond ==
  geomIt < Len(r_array)

\* the molecule of line 104 for bond length r
GeometryMut(r) ==
  Replace(mol_tmpl, StrMut(r))

Geometry(r) ==
  Replace(mol_tmpl, Str(r))

\* lines 103-105: one iteration of the loop over r_array
GeomIter ==
  /\ pc = "pes_geom"
  /\ GeomLoopCond
  /\ molecules' = ListAppend(molecules, Geometry(r_array[geomIt + 1]))
  /\ geomIt' = geomIt + 1
  /\ bound' = bound \cup {"r", "molecule"}
  /\ UNCHANGED <<pc, err, stdout, spectrumVars, r_array, RHF_E_array,
                 energyIt, fineVars, reqVars, envVars, givenVars, E_vib_au>>

\* the loop over r_array is exhausted
GeomEnd ==
  /\ pc = "pes_geom"
  /\ ~GeomLoopCond
  /\ pc' = "pes_energy"
  /\ UNCHANGED <<err, bound, stdout, spectrumVars, pesVars, fineVars, reqVars,
                 envVars, givenVars, E_vib_au>>

\* for mol in molecules: the list iterator has a next element
EnergyLoopCond ==
  energyIt < Len(molecules)

\* lines 109-111: one iteration of the loop over molecules
EnergyIter ==
  /\ pc = "pes_energy"
  /\ EnergyLoopCond
  /\ RHF_E_array' = ListAppend(RHF_E_array, Psi4Energy(molecules[energyIt + 1]))
  /\ energyIt' = energyIt + 1
  /\ bound' = bound \cup {"mol", "energy"}
  /\ UNCHANGED <<pc, err, stdout, spectrumVars, r_array, molecules, geomIt,
                 fineVars, reqVars, envVars, givenVars, E_vib_au>>

\* the loop over molecules is exhausted: the cell ends
EnergyEnd ==
  /\ pc = "pes_energy"
  /\ ~EnergyLoopCond
  /\ err' = NoError
  /\ pc' = After("pes", NoError)
  /\ UNCHANGED <<bound, stdout, spectrumVars, pesVars, fineVars, reqVars,
                 envVars, givenVars, E_vib_au>>

\* cell 128-130: plt.plot(r_array, RHF_E_array, ...)
PlotPes ==
  /\ pc = "plot_pes"
  /\ err' = ErrorOf(<<"plt", "r_array", "RHF_E_array">>, bound)
  /\ pc' = After("plot_pes", err')
  /\ UNCHANGED <<bound, stdout, spectrumVars, pesVars, fineVars, reqVars,
                 envVars, givenVars, E_vib_au>>

\* cell 158-160: two string literals; nothing is read, bound or raised
FitSplines ==
  /\ pc = "fit"
  /\ err' = NoError
  /\ pc' = After("fit", NoError)
  /\ UNCHANGED <<bound, stdout, spectrumVars, pesVars, fineVars, reqVars,
                 envVars, givenVars, E_vib_au>>

\* cell 177-186: the fine grid, the spline evaluated on it, the check plot
EvalFine ==
  /\ pc = "fine"
  /\ r_fine' = FineGrid
  /\ IF "E_spline" \notin bound
     THEN /\ err' = NameError("E_spline")
          /\ E_fine' = E_fine
          /\ bound' = bound \cup {"r_fine"}
     ELSE /\ E_fine' = EvalArray(E_spline, FineGrid)
          /\ bound' = bound \cup {"r_fine", "E_fine"}
          /\ err' = ErrorOf(<<"plt", "r_array_au", "E_array">>, bound)
  /\ pc' = After("fine", err')
  /\ UNCHANGED <<stdout, spectrumVars, pesVars, reqVars, envVars, givenVars,
                 E_vib_au>>

\* cell 229-237: plt.plot(r_fine, Force_fine, ...)
PlotForce ==
  /\ pc = "force"
  /\ err' = ErrorOf(<<"plt", "r_fine", "Force_fine">>, bound)
  /\ pc' = After("force", err')
  /\ UNCHANGED <<bound, stdout, spectrumVars, pesVars, fineVars, reqVars,
                 envVars, givenVars, E_vib_au>>

\* lines 257-260: the grid point of minimum energy
LocateMinimum(E, r) ==
  r[ArgMin(E) + 1]

\* cell 257-274: equilibrium separation, the two masses, print(mu)
FindReq ==
  /\ pc = "req"
  /\ IF ErrorOf(<<"np", "E_fine", "r_fine">>, bound) # NoError
     THEN /\ err' = ErrorOf(<<"np", "E_fine", "r_fine">>, bound)
          /\ UNCHANGED <<bound, stdout, reqVars>>
     ELSE /\ Req_idx' = ArgMin(E_fine)
          /\ Req' = LocateMinimum(E_fine, r_fine)
          /\ mH' = HydrogenMass
          /\ mF' = FluorineMass
          /\ bound' = bound \cup {"Req_idx", "Req", "mH", "mF"}
          /\ err' = ErrorOf(<<"mu">>, bound)
          /\ stdout' = stdout
               \o <<OutLine("Req_au", Req'),
                    OutLine("Req_Angstrom", (Req' * 100) \div AuPerAngstromMilli)>>
               \o (IF "mu" \in bound THEN <<OutLine("mu", mu)>> ELSE <<>>)
  /\ pc' = After("req", err')
  /\ UNCHANGED <<spectrumVars, pesVars, fineVars, envVars, givenVars,
                 E_vib_au>>

\* line 333: E_vib_au = 2 * np.pi * nu, in 1/1000 of the unit of nu
VibrationalEnergyMut(freq) ==
  (TwoPiMilli \div 2) * freq

VibrationalEnergy(freq) ==
  TwoPiMilli * freq

\* cell 318-334: print the force constant and the frequency, compute and
\* print the vibrational energy.  No statement tests the sign of
\* Force_Constant.
Extract ==
  /\ pc = "extract"
  /\ err' = ErrorOf(<<"Force_Constant", "nu", "np">>, bound)
  /\ IF err' = NoError
     THEN /\ E_vib_au' = VibrationalEnergy(nu)
          /\ bound' = bound \cup {"E_vib_au"}
          /\ stdout' = stdout
               \o <<OutLine("Force_Constant", Force_Constant),
                    OutLine("nu", nu),
                    OutLine("E_vib_au", E_vib_au')>>
     ELSE /\ UNCHANGED <<bound, E_vib_au>>
          /\ stdout' = stdout
               \o (IF "Force_Constant" \in bound
                   THEN <<OutLine("Force_Constant", Force_Constant)>>
                   ELSE <<>>)
  /\ pc' = After("extract", err')
  /\ UNCHANGED <<spectrumVars, pesVars, fineVars, reqVars, envVars, givenVars>>

\* cell 367: a string literal; nothing is read, bound or raised
HarmonicPotential ==
  /\ pc = "harm"
  /\ err' = NoError
  /\ pc' = After("harm", NoError)
  /\ UNCHANGED <<bound, stdout, spectrumVars, pesVars, fineVars, reqVars,
                 envVars, givenVars, E_vib_au>>

\* cell 384-391: plt.plot(r_fine, Harm_Pot, ...); plt.plot(r_fine, E_fine, ...)
PlotHarmonic ==
  /\ pc = "plot_harm"
  /\ err' = ErrorOf(<<"plt", "r_fine", "Harm_Pot", "E_fine">>, bound)
  /\ pc' = After("plot_harm", err')
  /\ UNCHANGED <<bound, stdout, spectrumVars, pesVars, fineVars, reqVars,
                 envVars, givenVars, E_vib_au>>

\* cell 415-429: the psi4 geometry, energy, optimisation and frequencies of
\* water; prints the first frequency
Water ==
  /\ pc = "water"
  /\ err' = ErrorOf(<<"psi4">>, bound)
  /\ IF err' = NoError
     THEN /\ bound' = bound \cup {"mol", "scf_e", "scf_wfn", "e", "wfn"}
          /\ stdout' = Append(stdout, OutLine("frequency", 0))
     ELSE UNCHANGED <<bound, stdout>>
  /\ pc' = After("water", err')
  /\ UNCHANGED <<spectrumVars, pesVars, fineVars, reqVars, envVars, givenVars,
                 E_vib_au>>

\* cell 438-439: prints the second and third frequency
WaterPrint ==
  /\ pc = "water_print"
  /\ err' = ErrorOf(<<"wfn">>, bound)
  /\ stdout' = IF err' = NoError
               THEN stdout \o <<OutLine("frequency", 1), OutLine("frequency", 2)>>
               ELSE stdout
  /\ pc' = After("water_print", err')
  /\ UNCHANGED <<bound, spectrumVars, pesVars, fineVars, reqVars, envVars,
                 givenVars, E_vib_au>>

\* cell 453: print(omega)
PrintOmega ==
  /\ pc = "omega"
  /\ err' = ErrorOf(<<"omega">>, bound)
  /\ stdout' = IF err' = NoError
               THEN Append(stdout, OutLine("omega", 0))
               ELSE stdout
  /\ pc' = After("omega", err')
  /\ UNCHANGED <<bound, spectrumVars, pesVars, fineVars, reqVars, envVars,
                 givenVars, E_vib_au>>

Next ==
  \/ Imports
  \/ SpectrumBegin
  \/ SpectrumIter
  \/ SpectrumEnd
  \/ ImportPsi4
  \/ PesBegin
  \/ GeomIter
  \/ GeomEnd
  \/ EnergyIter
  \/ EnergyEnd
  \/ PlotPes
  \/ FitSplines
  \/ EvalFine
  \/ PlotForce
  \/ FindReq
  \/ Extract
  \/ HarmonicPotential
  \/ PlotHarmonic
  \/ Water
  \/ WaterPrint
  \/ PrintOmega

\* the notebook as written, run top to bottom in a fresh kernel
Spec ==
  Init /\ [][Next]_vars

\* the kernel runs every queued cell
FairSpec ==
  Init /\ [][Next]_vars /\ WF_vars(Next)

\* which of the student's names exist: all of them, or all but one
GivenSets ==
  {StudentNames} \cup {StudentNames \ {n} : n \in StudentNames}

\* the cells as functions of the names they read: the names no cell assigns
\* are inputs, bound before the run to values drawn from bounded sets
InitCells ==
  /\ pc = "imports"
  /\ runAll \in BOOLEAN
  /\ err = NoError
  /\ bound \in GivenSets
  /\ stdout = <<>>
  /\ csv = [k \in 1..MaxRows |-> <<k, k % 2>>]
  /\ ir_spectrum = <<>> /\ wn = <<>> /\ ab = <<>> /\ rangeIt = 0
  /\ pes = 9
  /\ r_array = <<>> /\ molecules = <<>> /\ RHF_E_array = <<>>
  /\ geomIt = 0 /\ energyIt = 0
  /\ E_spline \in (IF "E_spline" \in bound THEN Interpolants
                   ELSE {DefaultInterpolant})
  /\ r_array_au \in (IF "r_array_au" \in bound THEN SampleRs ELSE {<<>>})
  /\ r_fine = <<>> /\ E_fine = <<>> /\ Req_idx = 0 /\ Req = 0
  /\ mH = 0 /\ mF = 0
  /\ mu = (IF "mu" \in bound
           THEN ReducedMassTenths(HydrogenMass, FluorineMass) ELSE 0)
  /\ Force_Constant \in (IF "Force_Constant" \in bound
                         THEN (-MaxForce)..MaxForce ELSE {0})
  /\ nu \in (IF "nu" \in bound THEN 0..MaxForce ELSE {0})
  /\ E_vib_au = 0

\* every cell applied to the namespaces the student's code can leave behind
SpecCells ==
  InitCells /\ [][Next]_vars

\* ------------------------------------------------------------- properties
\* the cell the execution is in
PcCell ==
  IF pc = "spectrum_loop" THEN "spectrum"
  ELSE IF pc \in {"pes_geom", "pes_energy"} THEN "pes"
  ELSE pc

PcIndex ==
  CellIndex(PcCell)

SeqMin(s) ==
  CHOOSE x \in Range(s) : \A y \in Range(s) : x <= y

SeqMax(s) ==
  CHOOSE x \in Range(s) : \A y \in Range(s) : y <= x

\* C1: once the locator has run, Req is the grid point r_fine[Req_idx],
\* Req_idx is an index of the minimum of E_fine, and among the indices holding
\* the minimal value it is the first one, so Req is the lowest such r.
C1_ArgminFirstMinimum ==
  "Req" \in bound =>
    /\ Req_idx \in 0..(Len(E_fine) - 1)
    /\ Req = r_fine[Req_idx + 1]
    /\ \A k \in 1..Len(E_fine) : E_fine[Req_idx + 1] <= E_fine[k]
    /\ \A k \in 1..Len(E_fine) :
         E_fine[k] = E_fine[Req_idx + 1] => (Req_idx + 1 <= k /\ Req <= r_fine[k])
    /\ StrictlyIncreasing(r_fine)

\* the locator has run on energies whose minimum is held by several interior
\* grid points that are not all neighbours
C1_Witness ==
  /\ "Req" \in bound
  /\ Req_idx > 0
  /\ \E k \in 1..Len(E_fine) : k > Req_idx + 2 /\ E_fine[k] = E_fine[Req_idx + 1]
  /\ \E k \in 1..Len(E_fine) : E_fine[k] > E_fine[Req_idx + 1]

\* the Sample Set offered to the fitting cell is one the Spline Fitter must
\* reject
FitInputInvalid ==
  /\ "r_array_au" \in bound
  /\ "E_array" \in bound
  /\ (Len(r_array_au) < 4 \/ ~StrictlyIncreasing(r_array_au))

SampleSetValid ==
  /\ Len(r_array) >= 4
  /\ StrictlyIncreasing(r_array)
  /\ Len(RHF_E_array) = Len(r_array)

\* C5 (as stated): once the Spline Fitter has run on a valid Sample Set, the
\* Interpolant exists and returns E_i at every sample r_i.
C5_Original ==
  (PcIndex > CellIndex("fit") /\ SampleSetValid) =>
    /\ "E_spline" \in bound
    /\ \A k \in 1..Len(r_array) :
         Eval(E_spline, ToAtomicUnits(r_array[k])) = RHF_E_array[k]

\* C6 (as stated): executing the cells top to bottom, no cell reads a name
\* that no earlier step has assigned.
C6_Original ==
  err.type # "NameError"

\* C7 (as stated): once bound, wn, ab, molecules, RHF_E_array, r_array,
\* r_fine, E_fine, mH and mF never change.
C7_Original ==
  [][/\ "wn" \in bound => wn' = wn
     /\ "ab" \in bound => ab' = ab
     /\ "molecules" \in bound => molecules' = molecules
     /\ "RHF_E_array" \in bound => RHF_E_array' = RHF_E_array
     /\ "r_array" \in bound => r_array' = r_array
     /\ "r_fine" \in bound => r_fine' = r_fine
     /\ "E_fine" \in bound => E_fine' = E_fine
     /\ "mH" \in bound => mH' = mH
     /\ "mF" \in bound => mF' = mF]_vars

\* C7 (amended): once bound, the lists wn, ab, molecules and RHF_E_array
\* change only by elements appended at their end, and r_array, r_fine, E_fine,
\* mH and mF never change; no name is ever unbound.
C7_AppendOnly ==
  [][/\ "wn" \in bound => IsPrefix(wn, wn')
     /\ "ab" \in bound => IsPrefix(ab, ab')
     /\ "molecules" \in bound => IsPrefix(molecules, molecules')
     /\ "RHF_E_array" \in bound => IsPrefix(RHF_E_array, RHF_E_array')
     /\ "r_array" \in bound => r_array' = r_array
     /\ "r_fine" \in bound => r_fine' = r_fine
     /\ "E_fine" \in bound => E_fine' = E_fine
     /\ "mH" \in bound => mH' = mH
     /\ "mF" \in bound => mF' = mF
     /\ bound \subseteq bound']_vars

\* every listed name is bound, the lists have grown and the run has gone on
\* after the masses were assigned
C7_Witness ==
  /\ {"wn", "ab", "molecules", "RHF_E_array", "r_array", "r_fine", "E_fine",
      "mH", "mF"} \subseteq bound
  /\ Len(wn) > 1
  /\ Len(RHF_E_array) > 1
  /\ mH = HydrogenMass
  /\ pc = "done"

\* every finished loop has run once per element of the sequence it iterates
LoopCounts ==
  /\ PcIndex > CellIndex("spectrum") =>
       /\ rangeIt = Len(csv)
       /\ Len(wn) = Len(csv)
       /\ Len(ab) = Len(csv)
  /\ (pc = "pes_energy" \/ PcIndex > CellIndex("pes")) =>
       /\ geomIt = Len(RArrayLiteral)
       /\ Len(molecules) = Len(RArrayLiteral)
  /\ PcIndex > CellIndex("pes") =>
       /\ energyIt = Len(RArrayLiteral)
       /\ Len(RHF_E_array) = Len(RArrayLiteral)

\* C8 (as stated): every loop runs once per element, and once stage 4 (the
\* extractor cell) has completed no further computation step is executed.
C8_Original ==
  /\ [](LoopCounts)
  /\ [][PcIndex > CellIndex("extract") => UNCHANGED <<bound, stdout>>]_vars

\* C8 (amended): every loop runs once per element and the run reaches its
\* final state; run cell by cell it does so only after the cells that follow
\* the extractor, the psi4 water cells included, have executed.
C8_Terminates ==
  /\ [](LoopCounts)
  /\ <>(pc = "done")
  /\ []((pc = "done" /\ ~runAll) =>
          /\ "wfn" \in bound
          /\ \E k \in 1..Len(stdout) : stdout[k].label = "frequency")

\* the run is over, every cell was executed and the row loop has iterated
C8_Witness ==
  /\ pc = "done"
  /\ ~runAll
  /\ "wfn" \in bound
  /\ Len(wn) = MaxRows
  /\ Len(RHF_E_array) = Len(RArrayLiteral)

\* C9: r_fine is a uniform grid of 200 points from 1.89*min(r_array) to
\* 1.89*max(r_array), every grid point lies in that closed range, and so does
\* the Req the locator returns.
C9_GridSpansSampleRange ==
  "r_fine" \in bound =>
    /\ "r_array" \in bound
    /\ LET rmin == ToAtomicUnits(SeqMin(r_array))
           rmax == ToAtomicUnits(SeqMax(r_array))
       IN  /\ Len(r_fine) = 200
           /\ r_fine[1] = rmin
           /\ r_fine[Len(r_fine)] = rmax
           /\ \A k \in 2..(Len(r_fine) - 1) :
                r_fine[k + 1] - r_fine[k] = r_fine[k] - r_fine[k - 1]
           /\ \A k \in 1..Len(r_fine) : rmin <= r_fine[k] /\ r_fine[k] <= rmax
           /\ "Req" \in bound => (rmin <= Req /\ Req <= rmax)

\* the locator has returned the last grid point, the largest sample
\* separation
C9_Witness ==
  /\ "r_fine" \in bound
  /\ "Req" \in bound
  /\ Req = ToAtomicUnits(23)
  /\ Req_idx = 199

\* C10: when the sampling cell has finished, molecules and RHF_E_array have
\* as many elements as r_array, the i-th energy is the energy of the i-th
\* bond length, and the r-values are strictly increasing and at least 4.
C10_SampleSetWellFormed ==
  PcIndex > CellIndex("pes") =>
    /\ Len(molecules) = Len(r_array)
    /\ Len(RHF_E_array) = Len(r_array)
    /\ \A k \in 1..Len(r_array) :
         /\ BondLength(molecules[k]) = r_array[k]
         /\ RHF_E_array[k] = SurfaceEnergy(r_array[k])
    /\ StrictlyIncreasing(r_array)
    /\ Len(r_array) >= 4

\* the sampling cell has just finished with its 19 energies
C10_Witness ==
  /\ pc = "plot_pes"
  /\ Len(RHF_E_array) = 19
  /\ RHF_E_array[1] # RHF_E_array[2]

====
